---------------------------- MODULE Spec2Model ----------------------------
(***************************************************************************)
(* A model of the routing and dispatch core of golang-rest (src/rest.go).  *)
(*                                                                         *)
(* Strings are sequences of one-character strings: "/a/{b}" is             *)
(* <<"/","a","/","{","b","}">>.  A compiled regular expression is the      *)
(* sequence of its items, each a literal character or the token            *)
(* regexPart.                                                              *)
(***************************************************************************)
EXTENDS Integers, Sequences, FiniteSets, TLC

(***************************************************************************)
(* Characters and character classes of the regular expressions.            *)
(***************************************************************************)
LowerLetters ==
    {"a","b","c","d","e","f","g","h","i","j","k","l","m",
     "n","o","p","q","r","s","t","u","v","w","x","y","z"}

UpperLetters ==
    {"A","B","C","D","E","F","G","H","I","J","K","L","M",
     "N","O","P","Q","R","S","T","U","V","W","X","Y","Z"}

Digits == {"0","1","2","3","4","5","6","7","8","9"}

\* [a-z0-9], the character class of subPathPattern.
SubPathChar == LowerLetters \cup Digits

\* [a-zA-Z0-9_-], the character class of regexPart.
RegexPartChar == LowerLetters \cup UpperLetters \cup Digits \cup {"_", "-"}

\* The token toRegexPath puts in the place of every {name}.
regexPart == "[a-zA-Z0-9_-]+"

(***************************************************************************)
(* strings.Split(s, "/"), strings.HasPrefix(s, "{"), strings.Replace(.., 1) *)
(***************************************************************************)
RECURSIVE SplitFrom(_, _, _, _)
SplitFrom(s, i, cur, acc) ==
    IF i > Len(s) THEN Append(acc, cur)
    ELSE IF s[i] = "/" THEN SplitFrom(s, i + 1, <<>>, Append(acc, cur))
    ELSE SplitFrom(s, i + 1, Append(cur, s[i]), acc)

\* strings.Split(s, "/"): the parts between the separators, one more than
\* there are separators ("" gives one empty part).
Split(s) == SplitFrom(s, 1, <<>>, <<>>)

HasPrefix(s) == Len(s) >= 1 /\ s[1] = "{"

\* The positions of character c in s.
Positions(s, c) == {i \in 1..Len(s) : s[i] = c}

SetMin(S) == CHOOSE x \in S : \A y \in S : x <= y

SetMax(S) == CHOOSE x \in S : \A y \in S : y <= x

\* strings.Replace(s, c, "", 1): s without the first occurrence of c.
RemoveFirst(s, c) ==
    IF Positions(s, c) = {} THEN s
    ELSE LET p == SetMin(Positions(s, c))
         IN  SubSeq(s, 1, p - 1) \o SubSeq(s, p + 1, Len(s))

\* removeBraces that forgets the closing brace.
removeBracesOpeningOnly(key) == RemoveFirst(key, "{")

removeBraces(key) == RemoveFirst(RemoveFirst(key, "}"), "{")

(***************************************************************************)
(* isValidPath: path == "/", or a match of the anchored expression built    *)
(* from subPathPattern: one or more groups, each a "/" followed by either   *)
(* a braced subPathPattern or a bare subPathPattern, where subPathPattern   *)
(* is one or more [a-z0-9], then any number of (optional "-", one or more   *)
(* [a-z0-9]).  The expression is run as its automaton.  States: "start"     *)
(* before a group, "seg" after the "/" of a group, "lit"/"litH" inside a    *)
(* bare subPathPattern (after a character / after a hyphen), "vopen" after  *)
(* "{", "var"/"varH" inside the braces, "vclose" after "}", "dead" when no  *)
(* match is left.                                                           *)
(***************************************************************************)
PathStep(q, c) ==
    CASE q = "start"  -> IF c = "/" THEN "seg" ELSE "dead"
      [] q = "seg"    -> IF c = "{" THEN "vopen"
                         ELSE IF c \in SubPathChar THEN "lit" ELSE "dead"
      [] q = "lit"    -> IF c \in SubPathChar THEN "lit"
                         ELSE IF c = "-" THEN "litH"
                         ELSE IF c = "/" THEN "seg" ELSE "dead"
      [] q = "litH"   -> IF c \in SubPathChar THEN "lit" ELSE "dead"
      [] q = "vopen"  -> IF c \in SubPathChar THEN "var" ELSE "dead"
      [] q = "var"    -> IF c \in SubPathChar THEN "var"
                         ELSE IF c = "-" THEN "varH"
                         ELSE IF c = "}" THEN "vclose" ELSE "dead"
      [] q = "varH"   -> IF c \in SubPathChar THEN "var" ELSE "dead"
      [] q = "vclose" -> IF c = "/" THEN "seg" ELSE "dead"
      [] OTHER        -> "dead"

RECURSIVE PathRun(_, _, _)
PathRun(q, s, i) == IF i > Len(s) THEN q ELSE PathRun(PathStep(q, s[i]), s, i + 1)

\* isValidPath with the hyphen rule left out: any mix of the legal characters.
isValidPathNoHyphenRule(path) ==
    \/ path = <<"/">>
    \/ /\ Len(path) >= 2
       /\ path[1] = "/"
       /\ \A i \in 2..Len(path) : path[i] \in SubPathChar \cup {"/", "{", "}", "-"}
       /\ path[Len(path)] # "/"

isValidPath(path) ==
    \/ path = <<"/">>
    \/ PathRun("start", path, 1) \in {"lit", "vclose"}

(***************************************************************************)
(* extractPathVariableNames.  A Go slice is modelled as a record with the  *)
(* flag isNil and the sequence elems (a nil slice has no elements).         *)
(***************************************************************************)
NilSlice == [isNil |-> TRUE, elems |-> <<>>]

Slice(elems) == [isNil |-> FALSE, elems |-> elems]

RECURSIVE CollectVariables(_, _, _)
CollectVariables(pathParts, i, acc) ==
    IF i > Len(pathParts) THEN acc
    ELSE IF HasPrefix(pathParts[i])
         THEN CollectVariables(pathParts, i + 1,
                  Append(acc, [pathIndex    |-> (i - 1) - 1,
                               variableName |-> removeBraces(pathParts[i])]))
         ELSE CollectVariables(pathParts, i + 1, acc)

\* extractPathVariableNames recording partIndex itself, without the - 1.
RECURSIVE CollectVariablesPartIndex(_, _, _)
CollectVariablesPartIndex(pathParts, i, acc) ==
    IF i > Len(pathParts) THEN acc
    ELSE IF HasPrefix(pathParts[i])
         THEN CollectVariablesPartIndex(pathParts, i + 1,
                  Append(acc, [pathIndex    |-> i - 1,
                               variableName |-> removeBraces(pathParts[i])]))
         ELSE CollectVariablesPartIndex(pathParts, i + 1, acc)

extractPathVariableNamesPartIndex(path) ==
    LET extracted == CollectVariablesPartIndex(Split(path), 1, <<>>)
    IN  IF Len(extracted) = 0 THEN NilSlice ELSE Slice(extracted)

extractPathVariableNames(path) ==
    LET extracted == CollectVariables(Split(path), 1, <<>>)
    IN  IF Len(extracted) = 0 THEN NilSlice ELSE Slice(extracted)

(***************************************************************************)
(* toRegexPath: every leftmost, shortest match of an opening brace, one or *)
(* more characters and a closing brace is replaced by                      *)
(* regexPart; the result is compiled as it stands, without anchors.        *)
(***************************************************************************)
\* The closing braces that can end a match opening at position i: at least
\* one character lies between the braces.
Closers(s, i) == {j \in (i + 2)..Len(s) : s[j] = "}"}

RECURSIVE ReplaceVariables(_, _, _)
ReplaceVariables(s, i, acc) ==
    IF i > Len(s) THEN acc
    ELSE IF s[i] = "{" /\ Closers(s, i) # {}
         THEN ReplaceVariables(s, SetMin(Closers(s, i)) + 1, Append(acc, regexPart))
         ELSE ReplaceVariables(s, i + 1, Append(acc, s[i]))

toRegexPath(path) == ReplaceVariables(path, 1, <<>>)

\* Whether the items re[k..] match a prefix of s[i..].
RECURSIVE MatchFrom(_, _, _, _)
MatchFrom(re, s, k, i) ==
    IF k > Len(re) THEN TRUE
    ELSE IF re[k] = regexPart
         THEN \E n \in 1..(Len(s) - i + 1) :
                  /\ \A j \in i..(i + n - 1) : s[j] \in RegexPartChar
                  /\ MatchFrom(re, s, k + 1, i + n)
         ELSE /\ i <= Len(s)
              /\ s[i] = re[k]
              /\ MatchFrom(re, s, k + 1, i + 1)

\* regexp.MatchString: the expression matches somewhere in s.
MatchString(re, s) == \E i \in 1..(Len(s) + 1) : MatchFrom(re, s, 1, i)


(***************************************************************************)
(* extractPathVariableValues: the request path is split on "/" and each    *)
(* variable reads the part at pathIndex + 1.  Go's map assignment           *)
(* overwrites an earlier value of the same key; an index outside the        *)
(* parts is a run-time panic.                                               *)
(***************************************************************************)
EmptyMap == [n \in {} |-> <<>>]

MapSet(m, key, value) ==
    [n \in (DOMAIN m) \cup {key} |-> IF n = key THEN value ELSE m[n]]

InRange(parts, index) == index >= 0 /\ index < Len(parts)

RECURSIVE AssignValues(_, _, _, _)
AssignValues(pathParts, vars, i, acc) ==
    IF i > Len(vars) \/ acc.panic THEN acc
    ELSE LET index == vars[i].pathIndex + 1
         IN  IF InRange(pathParts, index)
             THEN AssignValues(pathParts, vars, i + 1,
                      [panic  |-> FALSE,
                       values |-> MapSet(acc.values, vars[i].variableName,
                                         pathParts[index + 1])])
             ELSE [panic |-> TRUE, values |-> acc.values]

\* extractPathVariableValues without the + 1 that skips the empty part before
\* the leading "/".
RECURSIVE AssignValuesNoSkip(_, _, _, _)
AssignValuesNoSkip(pathParts, vars, i, acc) ==
    IF i > Len(vars) \/ acc.panic THEN acc
    ELSE LET index == vars[i].pathIndex
         IN  IF InRange(pathParts, index)
             THEN AssignValuesNoSkip(pathParts, vars, i + 1,
                      [panic  |-> FALSE,
                       values |-> MapSet(acc.values, vars[i].variableName,
                                         pathParts[index + 1])])
             ELSE [panic |-> TRUE, values |-> acc.values]

extractPathVariableValuesNoSkip(path, pathVariables) ==
    AssignValuesNoSkip(Split(path), pathVariables.elems, 1,
                       [panic |-> FALSE, values |-> EmptyMap])

extractPathVariableValues(path, pathVariables) ==
    AssignValues(Split(path), pathVariables.elems, 1,
                 [panic |-> FALSE, values |-> EmptyMap])

(***************************************************************************)
(* Handlers.  A handler function is known to the core by its reflected     *)
(* type: kind, number of inputs, whether input 1 is *Http, whether input 2  *)
(* is a pointer (and to what), number of outputs, whether the output is     *)
(* HttpResponse.  name tells one function from another.                     *)
(***************************************************************************)
NilHandler == [name |-> "nil", isNil |-> TRUE, kind |-> "nil", numIn |-> 0,
               in0IsHttp |-> FALSE, in1IsPtr |-> FALSE, in1Elem |-> "none",
               numOut |-> 0, outIsHttpResponse |-> FALSE]

Func(name, numIn, in0IsHttp, in1IsPtr, numOut, outIsHttpResponse) ==
    [name |-> name, isNil |-> FALSE, kind |-> "func", numIn |-> numIn,
     in0IsHttp |-> in0IsHttp, in1IsPtr |-> in1IsPtr,
     in1Elem |-> IF in1IsPtr THEN "DemoBody" ELSE "none",
     numOut |-> numOut, outIsHttpResponse |-> outIsHttpResponse]

NotAFunc == [NilHandler EXCEPT !.name = "int", !.isNil = FALSE, !.kind = "int"]

\* No reflect.Type: the requestBodyType of a handler without a body.
NoType == "nil"

\* isHttpMethodBodyable with GET among the methods that carry a body.
isHttpMethodBodyableGetToo(httpMethod) ==
    httpMethod \in {"GET", "POST", "PUT", "PATCH", "DELETE"}

isHttpMethodBodyable(httpMethod) ==
    httpMethod \in {"POST", "PUT", "PATCH", "DELETE"}

\* The panic validateHandler raises for this method and handler type, ""
\* when it returns.
validateHandler(httpMethod, t) ==
    IF t.kind # "func" THEN "validateHandler: not a func"
    ELSE IF ~(t.numIn = 1 \/ t.numIn = 2)
         THEN "validateHandler: must have 1 or 2 input parameters"
    ELSE IF isHttpMethodBodyable(httpMethod) /\ t.numIn = 1
         THEN "validateHandler: must have 2 parameters"
    ELSE IF ~isHttpMethodBodyable(httpMethod) /\ t.numIn = 2
         THEN "validateHandler: must have 1 parameters"
    ELSE IF ~t.in0IsHttp
         THEN "validateHandler: parameter 1 must be rest.Http"
    ELSE IF t.numIn = 2 /\ ~t.in1IsPtr
         THEN "validateHandler: parameter 2 must be a pointer"
    ELSE IF t.numOut # 1
         THEN "validateHandler: must have 1 output parameter"
    ELSE IF ~t.outIsHttpResponse
         THEN "validateHandler: return type must be rest.HttpResponse"
    ELSE ""

\* The panic assertValidPath raises, "" when it returns.
assertValidPath(path) ==
    IF isValidPath(path) THEN "" ELSE "assertValidPath: path didn't match"

\* NewCustomHandlerImpl: the panic it ends with ("" when it returns) and the
\* CustomHandlerImpl it returns.  The field path is a ghost: the template
\* the entry was compiled from, which the Go struct does not keep.
NewCustomHandlerImpl(httpMethod, path, handlerFunction) ==
    LET panic ==
            IF handlerFunction.isNil THEN "NewCustomHandlerImpl: handler must not be nil"
            ELSE IF assertValidPath(path) # "" THEN assertValidPath(path)
            ELSE validateHandler(httpMethod, handlerFunction)
    IN  [panic |-> panic,
         obj   |-> IF panic # "" THEN <<>>
                   ELSE [pathVariableNames |-> extractPathVariableNames(path),
                         regexPath         |-> toRegexPath(path),
                         requestBodyType   |-> IF handlerFunction.numIn = 2
                                               THEN handlerFunction.in1Elem
                                               ELSE NoType,
                         handlerValue      |-> handlerFunction,
                         path              |-> path]]

HasRequestBody(h) == h.requestBodyType # NoType

(***************************************************************************)
(* State.                                                                  *)
(***************************************************************************)
VARIABLES
    routes,       \* Routes: HTTP method -> sequence of CustomHandlerImpl
    filters,      \* Filters under construction: [pre, post], sequences
    dispatcher,   \* [exists, preFilters, postFilters] (routes is shared)
    lastCall,     \* ghost: the last configuration or unit call and its result
    pc,           \* "config", "crashed", "exit", or the position of ServeHTTP
    request,      \* the request being served: [method, path, body]
    handler,      \* ServeHTTP's local: the entry getHandler returned
    fi,           \* index of the next filter to run
    inputs,       \* the handler's inputs: [pathVariables, withBody]
    envelope,     \* the HttpResponse the handler returned
    sink,         \* operations performed on the http.ResponseWriter
    trace         \* ghost: the steps ServeHTTP has taken for this request

vars == <<routes, filters, dispatcher, lastCall, pc, request, handler, fi,
          inputs, envelope, sink, trace>>

config == <<routes, filters, dispatcher>>

serving == <<pc, request, handler, fi, inputs, envelope, sink, trace>>

NoCall == [fn |-> "none", arg |-> <<>>, result |-> <<>>, before |-> 0]

\* The body of a request nobody has read yet.
Unread == [readOk |-> TRUE, contentType |-> "", format |-> "unread"]

NoRequest == [method |-> "", path |-> <<>>, body |-> Unread]

NoHandler == <<>>

NoInputs == [pathVariables |-> EmptyMap, withBody |-> FALSE]

NoEnvelope == [kind |-> "none"]

\* The number of entries registered under httpMethod.
EntryCount(rs, httpMethod) ==
    IF httpMethod \in DOMAIN rs THEN Len(rs[httpMethod]) ELSE 0

RECURSIVE SumOver(_, _)
SumOver(rs, keys) ==
    IF keys = {} THEN 0
    ELSE LET k == CHOOSE k \in keys : TRUE
         IN  Len(rs[k]) + SumOver(rs, keys \ {k})

TotalEntries(rs) == SumOver(rs, DOMAIN rs)

Init ==
    /\ routes = EmptyMap
    /\ filters = [pre |-> <<>>, post |-> <<>>]
    /\ dispatcher = [exists |-> FALSE, preFilters |-> NilSlice, postFilters |-> NilSlice]
    /\ lastCall = NoCall
    /\ pc = "config"
    /\ request = NoRequest
    /\ handler = NoHandler
    /\ fi = 0
    /\ inputs = NoInputs
    /\ envelope = NoEnvelope
    /\ sink = <<>>
    /\ trace = <<>>

(***************************************************************************)
(* Configuration: Routes.addRoute (GET, POST, PUT, PATCH and DELETE call   *)
(* it with their method), Filters.AddPreFilter/AddPostFilter and            *)
(* NewDispatcher.  Nothing recovers from a panic: the program ends where    *)
(* the panic was raised (pc = "crashed").                                   *)
(***************************************************************************)
\* addRoute creates the method's list before NewCustomHandlerImpl runs, so
\* the key stays when NewCustomHandlerImpl panics.
addRoute(rs, httpMethod, path, handlerFunction) ==
    LET withKey == IF httpMethod \in DOMAIN rs THEN rs
                   ELSE MapSet(rs, httpMethod, <<>>)
        made    == NewCustomHandlerImpl(httpMethod, path, handlerFunction)
    IN  [panic  |-> made.panic,
         routes |-> IF made.panic # "" THEN withKey
                    ELSE [withKey EXCEPT ![httpMethod] = Append(@, made.obj)]]

AddRoute(MethodPool, PathPool, HandlerPool, RouteLimit) ==
    /\ pc = "config"
    /\ ~dispatcher.exists
    /\ TotalEntries(routes) < RouteLimit
    /\ \E httpMethod \in MethodPool, path \in PathPool, h \in HandlerPool :
          LET r == addRoute(routes, httpMethod, path, h)
          IN  /\ routes' = r.routes
              /\ lastCall' = [fn     |-> "addRoute",
                              arg    |-> [method |-> httpMethod, path |-> path,
                                          handler |-> h],
                              result |-> r.panic,
                              before |-> EntryCount(routes, httpMethod)]
              /\ pc' = IF r.panic # "" THEN "crashed" ELSE pc
    /\ UNCHANGED <<filters, dispatcher, request, handler, fi, inputs, envelope,
                   sink, trace>>


\* The unit calls of rest_test.go: a program that does nothing but apply a
\* pure function to a path, and exits.
Fresh ==
    /\ pc = "config"
    /\ routes = EmptyMap
    /\ filters = [pre |-> <<>>, post |-> <<>>]
    /\ ~dispatcher.exists
    /\ lastCall = NoCall

CallIsValidPath(PathPool) ==
    /\ Fresh
    /\ \E path \in PathPool :
          lastCall' = [fn |-> "isValidPath", arg |-> path,
                       result |-> isValidPath(path), before |-> 0]
    /\ pc' = "exit"
    /\ UNCHANGED <<config, request, handler, fi, inputs, envelope, sink, trace>>

CallExtractPathVariableNames(PathPool) ==
    /\ Fresh
    /\ \E path \in PathPool :
          lastCall' = [fn |-> "extractPathVariableNames", arg |-> path,
                       result |-> extractPathVariableNames(path), before |-> 0]
    /\ pc' = "exit"
    /\ UNCHANGED <<config, request, handler, fi, inputs, envelope, sink, trace>>

CallToRegexPath(PathPool) ==
    /\ Fresh
    /\ \E path \in PathPool :
          lastCall' = [fn |-> "toRegexPath", arg |-> path,
                       result |-> toRegexPath(path), before |-> 0]
    /\ pc' = "exit"
    /\ UNCHANGED <<config, request, handler, fi, inputs, envelope, sink, trace>>

\* A filter is a function value; the n-th filter added to a phase is told
\* from the others by n.  isNil: the caller passes a nil function.
AddPreFilter(FilterLimit) ==
    /\ pc = "config"
    /\ ~dispatcher.exists
    /\ Len(filters.pre) < FilterLimit
    /\ \E isNil \in BOOLEAN :
          IF isNil
          THEN /\ lastCall' = [fn |-> "AddPreFilter", arg |-> "nil",
                               result |-> "AddPreFilter: filter must not be nil",
                               before |-> Len(filters.pre)]
               /\ pc' = "crashed"
               /\ UNCHANGED filters
          ELSE /\ filters' = [filters EXCEPT !.pre =
                                 Append(@, [phase |-> "pre", n |-> Len(@) + 1])]
               /\ lastCall' = [fn |-> "AddPreFilter", arg |-> "func",
                               result |-> "", before |-> Len(filters.pre)]
               /\ pc' = pc
    /\ UNCHANGED <<routes, dispatcher, request, handler, fi, inputs, envelope,
                   sink, trace>>

AddPostFilter(FilterLimit) ==
    /\ pc = "config"
    /\ ~dispatcher.exists
    /\ Len(filters.post) < FilterLimit
    /\ \E isNil \in BOOLEAN :
          IF isNil
          THEN /\ lastCall' = [fn |-> "AddPostFilter", arg |-> "nil",
                               result |-> "AddPostFilter: filter must not be nil",
                               before |-> Len(filters.post)]
               /\ pc' = "crashed"
               /\ UNCHANGED filters
          ELSE /\ filters' = [filters EXCEPT !.post =
                                 Append(@, [phase |-> "post", n |-> Len(@) + 1])]
               /\ lastCall' = [fn |-> "AddPostFilter", arg |-> "func",
                               result |-> "", before |-> Len(filters.post)]
               /\ pc' = pc
    /\ UNCHANGED <<routes, dispatcher, request, handler, fi, inputs, envelope,
                   sink, trace>>

\* NewDispatcher(routes, filters); either argument may be nil.  The
\* dispatcher keeps the routes map itself and the two filter slices, each
\* left nil when it has no element.
NewDispatcher ==
    /\ pc = "config"
    /\ ~dispatcher.exists
    /\ \E routesNil \in BOOLEAN, filtersNil \in BOOLEAN :
          IF routesNil
          THEN /\ lastCall' = [fn |-> "NewDispatcher", arg |-> <<routesNil, filtersNil>>,
                               result |-> "NewDispatcher: routes must not be nil",
                               before |-> 0]
               /\ pc' = "crashed"
               /\ UNCHANGED dispatcher
          ELSE /\ dispatcher' =
                     [exists      |-> TRUE,
                      preFilters  |-> IF ~filtersNil /\ Len(filters.pre) > 0
                                      THEN Slice(filters.pre) ELSE NilSlice,
                      postFilters |-> IF ~filtersNil /\ Len(filters.post) > 0
                                      THEN Slice(filters.post) ELSE NilSlice]
               /\ lastCall' = [fn |-> "NewDispatcher", arg |-> <<routesNil, filtersNil>>,
                               result |-> "", before |-> 0]
               /\ pc' = "idle"
    /\ UNCHANGED <<routes, filters, request, handler, fi, inputs, envelope, sink, trace>>

(***************************************************************************)
(* Serving: Dispatcher.ServeHTTP, one action per step.  Every callback     *)
(* (filter, handler) is user code: what it returns, and whether it writes   *)
(* to the response, is an input of the step that calls it.                  *)
(***************************************************************************)
Event(ev, n, ok) == [ev |-> ev, n |-> n, ok |-> ok]

Op(by, op, key, value, status) ==
    [by |-> by, op |-> op, key |-> key, value |-> value, status |-> status]

\* The indexes of the entries under httpMethod whose expression matches;
\* a method without a key reads as a nil slice.
Matching(rs, httpMethod, calledPath) ==
    IF httpMethod \in DOMAIN rs
    THEN {i \in 1..Len(rs[httpMethod]) :
             MatchString(rs[httpMethod][i].regexPath, calledPath)}
    ELSE {}

\* getHandler falling back on the method's first entry.
getHandlerFallsBack(rs, httpMethod, calledPath) ==
    LET m == Matching(rs, httpMethod, calledPath)
    IN  IF m = {}
        THEN IF EntryCount(rs, httpMethod) = 0
             THEN [err |-> TRUE, handler |-> NoHandler]
             ELSE [err |-> FALSE, handler |-> rs[httpMethod][1]]
        ELSE [err |-> FALSE, handler |-> rs[httpMethod][SetMin(m)]]

\* getHandler keeping the last entry that matches instead of returning at
\* the first.
getHandlerLastMatch(rs, httpMethod, calledPath) ==
    LET m == Matching(rs, httpMethod, calledPath)
    IN  IF m = {} THEN [err |-> TRUE, handler |-> NoHandler]
        ELSE [err |-> FALSE, handler |-> rs[httpMethod][SetMax(m)]]

getHandler(rs, httpMethod, calledPath) ==
    LET m == Matching(rs, httpMethod, calledPath)
    IN  IF m = {} THEN [err |-> TRUE, handler |-> NoHandler]
        ELSE [err |-> FALSE, handler |-> rs[httpMethod][SetMin(m)]]

\* Where ServeHTTP goes when the filters of a phase are exhausted or absent.
AfterLookup == IF Len(dispatcher.preFilters.elems) = 0 THEN "bind" ELSE "pre"

AfterHandler == IF Len(dispatcher.postFilters.elems) = 0 THEN "done" ELSE "post"

\* ServeHTTP is entered: getHandler, and the 404 when it fails.
ServeHTTP(MethodPool, PathPool) ==
    /\ pc = "idle"
    /\ dispatcher.exists
    /\ \E method \in MethodPool, calledPath \in PathPool :
          LET got == getHandler(routes, method, calledPath)
          IN  /\ request' = [method |-> method, path |-> calledPath, body |-> Unread]
              /\ handler' = got.handler
              /\ IF got.err
                 THEN /\ sink' = <<Op("core", "WriteHeader", "", "", 404)>>
                      /\ trace' = <<Event("lookup", 0, FALSE)>>
                      /\ pc' = "done"
                 ELSE /\ sink' = <<>>
                      /\ trace' = <<Event("lookup", 0, TRUE)>>
                      /\ pc' = AfterLookup
    /\ fi' = 1
    /\ inputs' = NoInputs
    /\ envelope' = NoEnvelope
    /\ UNCHANGED <<config, lastCall>>

\* What a filter leaves on the response when it writes to it.
FilterOps(filter, wrote) ==
    IF wrote THEN <<Op("filter", "Write", filter.phase, "", filter.n)>> ELSE <<>>

\* PreFilter with the filter's result dropped.
PreFilterIgnoresResult ==
    /\ pc = "pre"
    /\ \E verdict \in BOOLEAN, wrote \in BOOLEAN :
          LET filter == dispatcher.preFilters.elems[fi]
          IN  /\ sink' = sink \o FilterOps(filter, wrote)
              /\ trace' = Append(trace, Event("pre", filter.n, verdict))
              /\ IF fi < Len(dispatcher.preFilters.elems)
                 THEN pc' = "pre" /\ fi' = fi + 1
                 ELSE pc' = "bind" /\ fi' = 1
    /\ UNCHANGED <<config, lastCall, request, handler, inputs, envelope>>

\* One iteration of executeFilters over the pre-filters.
PreFilter ==
    /\ pc = "pre"
    /\ \E verdict \in BOOLEAN, wrote \in BOOLEAN :
          LET filter == dispatcher.preFilters.elems[fi]
          IN  /\ sink' = sink \o FilterOps(filter, wrote)
              /\ trace' = Append(trace, Event("pre", filter.n, verdict))
              /\ IF ~verdict THEN pc' = "done" /\ fi' = fi
                 ELSE IF fi < Len(dispatcher.preFilters.elems)
                      THEN pc' = "pre" /\ fi' = fi + 1
                      ELSE pc' = "bind" /\ fi' = 1
    /\ UNCHANGED <<config, lastCall, request, handler, inputs, envelope>>

\* unmarshal picks the decoder by the Content-Type; the decoder fails on
\* data of another format.
unmarshal(contentType, format) ==
    LET decoder == IF contentType = "application/xml" THEN "xml" ELSE "json"
    IN  decoder = format

\* toRequestBodyObject: whether it returns an error.
toRequestBodyObjectFails(body) ==
    IF ~body.readOk THEN TRUE
    ELSE ~unmarshal(body.contentType, body.format)

\* Bind with a failed read or decode passed over.
BindIgnoresError(BodyPool) ==
    /\ pc = "bind"
    /\ \E body \in BodyPool :
          /\ request' = [request EXCEPT !.body = IF HasRequestBody(handler) THEN body ELSE @]
          /\ inputs' = [pathVariables |->
                            extractPathVariableValues(request.path,
                                                      handler.pathVariableNames).values,
                        withBody |-> HasRequestBody(handler)]
    /\ trace' = Append(trace, Event("bind", 0, TRUE))
    /\ pc' = "invoke"
    /\ UNCHANGED <<config, lastCall, handler, fi, envelope, sink>>

\* extractPathVariableValues, then the inputs with or without the body.
\* The body is read here, when the handler takes one.
Bind(BodyPool) ==
    /\ pc = "bind"
    /\ LET pv == extractPathVariableValues(request.path, handler.pathVariableNames)
       IN  IF pv.panic
           THEN /\ pc' = "panic"
                /\ trace' = Append(trace, Event("bind", 0, FALSE))
                /\ UNCHANGED <<inputs, request>>
           ELSE IF ~HasRequestBody(handler)
           THEN /\ inputs' = [pathVariables |-> pv.values, withBody |-> FALSE]
                /\ trace' = Append(trace, Event("bind", 0, TRUE))
                /\ pc' = "invoke"
                /\ UNCHANGED request
           ELSE \E body \in BodyPool :
                   /\ request' = [request EXCEPT !.body = body]
                   /\ IF toRequestBodyObjectFails(body)
                      THEN /\ pc' = "done"
                           /\ trace' = Append(trace, Event("bind", 0, FALSE))
                           /\ UNCHANGED inputs
                      ELSE /\ inputs' = [pathVariables |-> pv.values, withBody |-> TRUE]
                           /\ trace' = Append(trace, Event("bind", 0, TRUE))
                           /\ pc' = "invoke"
    /\ UNCHANGED <<config, lastCall, handler, fi, envelope, sink>>

\* What a handler may do to Http.Response, which is the live
\* http.ResponseWriter, before it returns or panics.
HandlerWrites ==
    {<<>>,
     <<Op("handler", "Header.Set", "X-H", "1", 0),
       Op("handler", "WriteHeader", "", "", 202)>>}

\* WriteHttpResponse, first half: the handler is called with the inputs.
\* It is user code: it may write to the response, and it either panics,
\* which goes up through ServeHTTP, or returns an HttpResponse, which may
\* be nil; a nil one is not written.
Invoke(EnvelopePool) ==
    /\ pc = "invoke"
    /\ \E wrote \in HandlerWrites, panics \in BOOLEAN :
          /\ sink' = sink \o wrote
          /\ IF panics
             THEN /\ trace' = Append(trace, Event("invoke", 0, FALSE))
                  /\ pc' = "panic"
                  /\ UNCHANGED envelope
             ELSE /\ trace' = Append(trace, Event("invoke", 0, TRUE))
                  /\ \E e \in EnvelopePool :
                        /\ envelope' = e
                        /\ pc' = IF e.kind = "nil" THEN AfterHandler ELSE "write"
    /\ UNCHANGED <<config, lastCall, request, handler, fi, inputs>>


(***************************************************************************)
(* The HttpResponse implementations and what each write() does to the      *)
(* response, in the order of its statements.  customHeaders is a Go map:    *)
(* a set of pairs, ranged over in any order.                                *)
(***************************************************************************)
NilResponse == [kind |-> "nil"]

ResponseWriter(contentType, statusCode, customHeaders, marshalOk) ==
    [kind |-> "ResponseWriter", contentType |-> contentType,
     statusCode |-> statusCode, customHeaders |-> customHeaders,
     marshalOk |-> marshalOk]

JsonResponse(statusCode, marshalOk, customHeaders) ==
    ResponseWriter("application/json", statusCode, customHeaders, marshalOk)

XmlResponse(statusCode, marshalOk, customHeaders) ==
    ResponseWriter("application/xml", statusCode, customHeaders, marshalOk)

JsonErrorResponse(statusCode) ==
    ResponseWriter("application/json", statusCode, {}, TRUE)

XmlErrorResponse(statusCode) ==
    ResponseWriter("application/xml", statusCode, {}, TRUE)

FileResponse(statusCode, contentType, contentDisposition, contentLength, copyOk) ==
    [kind |-> "FileResponseWriter", contentType |-> contentType,
     statusCode |-> statusCode, contentLength |-> contentLength,
     contentDisposition |-> contentDisposition, copyOk |-> copyOk]

NoContentResponse == [kind |-> "NoContentResponseWriter"]

TextResponse(statusCode) ==
    [kind |-> "TextResponseWriter", statusCode |-> statusCode, customHeaders |-> {}]

StatusNoContent == 204

\* The orders in which a range over the map can visit its pairs.
RangeOrders(m) ==
    {o \in [1..Cardinality(m) -> m] : \A i, j \in 1..Cardinality(m) : i # j => o[i] # o[j]}

HeaderOps(order) ==
    [i \in 1..Len(order) |-> Op("envelope", "Header.Set", order[i].key, order[i].value, 0)]

\* EnvelopeWrites with every write() setting its headers first and
\* committing the status after them.
EnvelopeWritesHeadersFirst(r) ==
    CASE r.kind = "ResponseWriter" ->
           {<<Op("envelope", "Header.Set", "Content-Type", r.contentType, 0)>>
            \o HeaderOps(o)
            \o <<Op("envelope", "WriteHeader", "", "", r.statusCode)>>
            \o (IF r.marshalOk THEN <<Op("envelope", "Write", "", "marshalled", 0)>>
                ELSE <<>>) : o \in RangeOrders(r.customHeaders)}
      [] r.kind = "FileResponseWriter" ->
           {(IF r.contentLength > 0
             THEN <<Op("envelope", "Header.Set", "Content-Length", "string(contentLength)", 0)>>
             ELSE <<>>)
            \o <<Op("envelope", "Header.Set", "Content-Disposition", r.contentDisposition, 0),
                 Op("envelope", "Header.Set", "Content-Type", r.contentType, 0),
                 Op("envelope", "WriteHeader", "", "", r.statusCode),
                 Op("envelope", "Write", "", IF r.copyOk THEN "file" ELSE "part of file", 0)>>}
      [] r.kind = "NoContentResponseWriter" ->
           {<<Op("envelope", "WriteHeader", "", "", StatusNoContent)>>}
      [] r.kind = "TextResponseWriter" ->
           {<<Op("envelope", "Header.Set", "Content-Type", "text/plain", 0)>>
            \o HeaderOps(o)
            \o <<Op("envelope", "WriteHeader", "", "", r.statusCode),
                 Op("envelope", "Write", "", "responseBody", 0)>>
            : o \in RangeOrders(r.customHeaders)}
      [] OTHER -> {<<>>}

\* The sequences of operations write() may perform, one per range order.
EnvelopeWrites(r) ==
    CASE r.kind = "ResponseWriter" ->
           {<<Op("envelope", "WriteHeader", "", "", r.statusCode),
              Op("envelope", "Header.Set", "Content-Type", r.contentType, 0)>>
            \o HeaderOps(o)
            \o (IF r.marshalOk THEN <<Op("envelope", "Write", "", "marshalled", 0)>>
                ELSE <<>>) : o \in RangeOrders(r.customHeaders)}
      [] r.kind = "FileResponseWriter" ->
           {(IF r.contentLength > 0
             THEN <<Op("envelope", "Header.Set", "Content-Length", "string(contentLength)", 0)>>
             ELSE <<>>)
            \o <<Op("envelope", "Header.Set", "Content-Disposition", r.contentDisposition, 0),
                 Op("envelope", "WriteHeader", "", "", r.statusCode),
                 Op("envelope", "Header.Set", "Content-Type", r.contentType, 0),
                 Op("envelope", "Write", "", IF r.copyOk THEN "file" ELSE "part of file", 0)>>}
      [] r.kind = "NoContentResponseWriter" ->
           {<<Op("envelope", "WriteHeader", "", "", StatusNoContent)>>}
      [] r.kind = "TextResponseWriter" ->
           {<<Op("envelope", "WriteHeader", "", "", r.statusCode),
              Op("envelope", "Header.Set", "Content-Type", "text/plain", 0)>>
            \o HeaderOps(o)
            \o <<Op("envelope", "Write", "", "responseBody", 0)>>
            : o \in RangeOrders(r.customHeaders)}
      [] OTHER -> {<<>>}

\* WriteEnvelope writing the envelope a second time.
WriteEnvelopeTwice ==
    /\ pc = "write"
    /\ \E ops \in EnvelopeWrites(envelope) : sink' = sink \o ops \o ops
    /\ trace' = Append(Append(trace, Event("write", 0, TRUE)), Event("write", 0, TRUE))
    /\ pc' = AfterHandler
    /\ UNCHANGED <<config, lastCall, request, handler, fi, inputs, envelope>>

\* WriteHttpResponse, second half: impl.write(response).
WriteEnvelope ==
    /\ pc = "write"
    /\ \E ops \in EnvelopeWrites(envelope) : sink' = sink \o ops
    /\ trace' = Append(trace, Event("write", 0, TRUE))
    /\ pc' = AfterHandler
    /\ UNCHANGED <<config, lastCall, request, handler, fi, inputs, envelope>>

\* PostFilter with the filter's result dropped.
PostFilterIgnoresResult ==
    /\ pc = "post"
    /\ \E verdict \in BOOLEAN, wrote \in BOOLEAN :
          LET filter == dispatcher.postFilters.elems[fi]
          IN  /\ sink' = sink \o FilterOps(filter, wrote)
              /\ trace' = Append(trace, Event("post", filter.n, verdict))
              /\ IF fi < Len(dispatcher.postFilters.elems)
                 THEN pc' = "post" /\ fi' = fi + 1
                 ELSE pc' = "done" /\ fi' = fi
    /\ UNCHANGED <<config, lastCall, request, handler, inputs, envelope>>

\* One iteration of executeFilters over the post-filters; its result is
\* dropped by ServeHTTP.
PostFilter ==
    /\ pc = "post"
    /\ \E verdict \in BOOLEAN, wrote \in BOOLEAN :
          LET filter == dispatcher.postFilters.elems[fi]
          IN  /\ sink' = sink \o FilterOps(filter, wrote)
              /\ trace' = Append(trace, Event("post", filter.n, verdict))
              /\ IF verdict /\ fi < Len(dispatcher.postFilters.elems)
                 THEN pc' = "post" /\ fi' = fi + 1
                 ELSE pc' = "done" /\ fi' = fi
    /\ UNCHANGED <<config, lastCall, request, handler, inputs, envelope>>

\* ServeHTTP returns (or its panic is caught by the server): the request,
\* its response and ServeHTTP's locals are gone.
Return ==
    /\ pc \in {"done", "panic"}
    /\ pc' = "idle"
    /\ request' = NoRequest
    /\ handler' = NoHandler
    /\ fi' = 0
    /\ inputs' = NoInputs
    /\ envelope' = NoEnvelope
    /\ sink' = <<>>
    /\ trace' = <<>>
    /\ UNCHANGED <<config, lastCall>>

(***************************************************************************)
(* Inputs.                                                                 *)
(***************************************************************************)
MaxRawLen == 4
MaxSegments == 3
MaxRoutes == 2
MaxFilters == 2
MaxMatchSegments == 2
MaxRequestSegments == 3

\* The sequences over S of length lo to hi.
SeqsOf(S, lo, hi) == UNION {[1..k -> S] : k \in lo..hi}

RECURSIVE Join(_)
\* Every segment preceded by "/".
Join(segs) == IF Len(segs) = 0 THEN <<>> ELSE <<"/">> \o Head(segs) \o Join(Tail(segs))

PathsOf(Segments, n) == {Join(segs) : segs \in SeqsOf(Segments, 1, n)}

\* The template of the README and of rest_test.go, and the path the test
\* matches against it.
TestTemplate ==
    <<"/","a","/","{","m","o","-","c","k","1","}","/","b","b","b","/",
      "{","m","-","o","-","c","k","2","}","/","a","-","b","-","c","1","/",
      "{","m","o","c","k","3","}">>

TestPath ==
    <<"/","a","/","1","1","1","1","1","1","/","b","b","b","/",
      "2","2","2","2","2","2","/","a","-","b","-","c","1","/",
      "3","3","3","3","3","3">>

RawChars == {"/", "{", "}", "a", "-", "A"}

TemplateSegments ==
    {<<"a">>, <<"b","2">>, <<"{","a","}">>, <<"{","b","}">>, <<"a","-","b">>,
     <<"{","a","-","b","}">>, <<>>, <<"a","-","-","b">>}

\* Paths given to the pure functions and to registration: every string of
\* up to MaxRawLen characters, and longer ones made of whole segments.
PathPool ==
    SeqsOf(RawChars, 0, MaxRawLen) \cup PathsOf(TemplateSegments, MaxSegments)
    \cup {TestTemplate}

GetHandler == Func("get", 1, TRUE, FALSE, 1, TRUE)

PostHandler == Func("post", 2, TRUE, TRUE, 1, TRUE)

\* Every shape of handler type, nil and a value that is no function.
HandlerPool ==
    {Func("h", n, a, n >= 2, 1, TRUE) : n \in 0..3, a \in BOOLEAN}
    \cup {Func("h", 2, TRUE, FALSE, 1, TRUE), Func("h", 1, TRUE, FALSE, 0, FALSE),
          Func("h", 1, TRUE, FALSE, 2, TRUE), Func("h", 1, TRUE, FALSE, 1, FALSE),
          Func("h", 2, TRUE, TRUE, 1, FALSE), NilHandler, NotAFunc}

HttpMethods == {"GET", "POST", "PUT", "PATCH", "DELETE"}


\* Request bodies: whether the read succeeds, the Content-Type header and
\* the format the bytes are in.
BodyPool ==
    [readOk : BOOLEAN,
     contentType : {"application/json", "application/xml", ""},
     format : {"json", "xml"}]

AllEnvelopes ==
    {JsonResponse(200, TRUE, {[key |-> "X-A", value |-> "1"]}),
     JsonResponse(200, FALSE, {}),
     XmlResponse(201, TRUE, {[key |-> "X-A", value |-> "1"], [key |-> "X-B", value |-> "2"]}),
     JsonErrorResponse(400), XmlErrorResponse(500),
     FileResponse(200, "image/png", "attachment", 0, TRUE),
     FileResponse(200, "image/png", "attachment", 9, FALSE),
     NoContentResponse, TextResponse(200), NilResponse}

\* The pipeline's inputs.
ServeEnvelopes == {TextResponse(200), JsonResponse(200, FALSE, {}), NilResponse}

ServeTemplates == {<<"/","a">>, <<"/","{","}">>}

ServePaths == {<<"/","a">>, <<"/","b">>}

ServeHandlers == {GetHandler, PostHandler, NilHandler}

\* The matcher's inputs.
MatchSegments == {<<"a">>, <<"b">>, <<"{","a","}">>, <<"{","b","}">>}

MatchTemplates == PathsOf(MatchSegments, MaxMatchSegments) \cup {<<"/">>, TestTemplate}

RequestSegments == {<<"a">>, <<"b">>, <<"A","_">>, <<>>, <<"a",".">>}

MatchPaths ==
    PathsOf(RequestSegments, MaxRequestSegments)
    \cup {<<>>, <<"a">>, <<"b","/","a","/","b">>, TestPath}

\* The lookup's inputs: templates that accept common paths, and handlers
\* told apart by their names.
LookupTemplates == {<<"/">>, <<"/","a">>, <<"/","{","a","}">>, <<"/","a","/","{","b","}">>}

LookupHandlers ==
    {Func("first", 1, TRUE, FALSE, 1, TRUE), Func("second", 1, TRUE, FALSE, 1, TRUE),
     Func("third", 2, TRUE, TRUE, 1, TRUE)}

LookupPaths == {<<"/","a">>, <<"/","a","/","b">>, <<"/","b">>}

(***************************************************************************)
(* Specifications.  Spec: configuration, then requests through every step  *)
(* of ServeHTTP.  SpecPath: the pure functions and registration over        *)
(* PathPool.  SpecRegister: registration over every method and handler      *)
(* shape.  SpecMatch: one GET route and requests over MatchPaths.           *)
(***************************************************************************)
Next ==
    \/ AddRoute({"GET", "POST"}, ServeTemplates, ServeHandlers, MaxRoutes)
    \/ AddPreFilter(MaxFilters)
    \/ AddPostFilter(MaxFilters)
    \/ NewDispatcher
    \/ ServeHTTP({"GET", "POST", "PUT"}, ServePaths)
    \/ PreFilter
    \/ Bind(BodyPool)
    \/ Invoke(ServeEnvelopes)
    \/ WriteEnvelope
    \/ PostFilter
    \/ Return

Spec == Init /\ [][Next]_vars

NextPath ==
    \/ CallIsValidPath(PathPool)
    \/ CallExtractPathVariableNames(PathPool)
    \/ CallToRegexPath(PathPool)
    \/ AddRoute({"GET"}, PathPool, {GetHandler, NilHandler}, 1)

SpecPath == Init /\ [][NextPath]_vars

NextRegister ==
    AddRoute(HttpMethods, {<<"/","a">>}, HandlerPool, MaxRoutes)

SpecRegister == Init /\ [][NextRegister]_vars

NextMatch ==
    \/ AddRoute({"GET"}, MatchTemplates, {GetHandler}, 1)
    \/ NewDispatcher
    \/ ServeHTTP({"GET"}, MatchPaths)
    \/ Bind(BodyPool)
    \/ Invoke({TextResponse(200)})
    \/ WriteEnvelope
    \/ Return

SpecMatch == Init /\ [][NextMatch]_vars

NextLookup ==
    \/ AddRoute({"GET", "POST"}, LookupTemplates, LookupHandlers, MaxRoutes)
    \/ NewDispatcher
    \/ ServeHTTP({"GET", "POST", "PUT"}, LookupPaths)
    \/ Bind({[readOk |-> TRUE, contentType |-> "", format |-> "json"]})
    \/ Invoke({TextResponse(200)})
    \/ WriteEnvelope
    \/ Return

SpecLookup == Init /\ [][NextLookup]_vars

NextEnvelope ==
    \/ AddRoute({"GET", "POST"}, {<<"/","a">>}, {GetHandler, PostHandler}, 1)
    \/ AddPreFilter(1)
    \/ AddPostFilter(1)
    \/ NewDispatcher
    \/ ServeHTTP({"GET", "POST"}, {<<"/","a">>})
    \/ PreFilter
    \/ Bind(BodyPool)
    \/ Invoke(AllEnvelopes)
    \/ WriteEnvelope
    \/ PostFilter
    \/ Return

SpecEnvelope == Init /\ [][NextEnvelope]_vars


(***************************************************************************)
(* Properties.                                                             *)
(***************************************************************************)
\* A request has entered ServeHTTP and has not been returned from.
InRequest == pc \in {"pre", "bind", "invoke", "write", "post", "done", "panic"}

\* The events of the trace with this name.
EventsOf(ev) == {k \in 1..Len(trace) : trace[k].ev = ev}

\* The operations on the response performed by the core or by an envelope,
\* as opposed to those a filter performed.
OpsBy(by) == {k \in 1..Len(sink) : sink[k].by = by}

NotFound == 404

\* No entry registered under the request's method has a matcher that
\* accepts the request's path.
NoRouteAccepts ==
    \A i \in 1..EntryCount(routes, request.method) :
        ~MatchString(routes[request.method][i].regexPath, request.path)

\* C1: a request no route of its method accepts gets status 404 from the
\* core and nothing else: ServeHTTP is over, the 404 is the only operation
\* on the response, and no filter, binding, handler or envelope ran.
C1_UnroutedGets404 ==
    (InRequest /\ NoRouteAccepts) =>
        /\ pc = "done"
        /\ sink = <<Op("core", "WriteHeader", "", "", NotFound)>>
        /\ trace = <<Event("lookup", 0, FALSE)>>

\* C1's case: routes exist under the method and filters are installed, yet
\* none accepts the path.
C1_Witness ==
    /\ pc = "done"
    /\ NoRouteAccepts
    /\ EntryCount(routes, request.method) > 0
    /\ Len(dispatcher.preFilters.elems) > 0
    /\ Len(dispatcher.postFilters.elems) > 0
    /\ Len(sink) = 1

\* A pre-filter has returned false for this request.
PreRejected == \E k \in EventsOf("pre") : ~trace[k].ok

\* C2: when the i-th pre-filter is the first to return false, the trace is
\* the lookup followed by pre-filters 1..i in registration order, once
\* each, and nothing after them; ServeHTTP is over and every operation on
\* the response is a filter's own.
C2_PreFilterRejects ==
    PreRejected =>
        LET i == Len(trace) - 1
        IN  /\ pc = "done"
            /\ i >= 1
            /\ i <= Len(filters.pre)
            /\ trace[1] = Event("lookup", 0, TRUE)
            /\ \A k \in 1..i : trace[k + 1] = Event("pre", k, k < i)
            /\ OpsBy("core") = {}
            /\ OpsBy("handler") = {}
            /\ OpsBy("envelope") = {}

\* C2's case: the second of two pre-filters rejects, after a filter wrote
\* to the response, with post-filters installed.
C2_Witness ==
    /\ PreRejected
    /\ Len(trace) = 3
    /\ Len(dispatcher.postFilters.elems) > 0
    /\ sink # <<>>


\* The trace a request has when it was routed and its pre-filters all
\* returned true: the lookup, then every pre-filter in registration order.
PassedPre ==
    <<Event("lookup", 0, TRUE)>>
    \o [k \in 1..Len(dispatcher.preFilters.elems) |-> Event("pre", k, TRUE)]

\* C10: when the handler takes a body and the body cannot be read or
\* decoded, ServeHTTP is over at the binding step: the trace is the lookup,
\* the pre-filters and the failed binding, with no handler call, envelope
\* or post-filter, and every operation on the response is a filter's own.
C10_BindFailureEndsRequest ==
    (InRequest /\ request.body # Unread /\ toRequestBodyObjectFails(request.body)) =>
        /\ pc = "done"
        /\ HasRequestBody(handler)
        /\ trace = PassedPre \o <<Event("bind", 0, FALSE)>>
        /\ OpsBy("core") = {}
        /\ OpsBy("handler") = {}
        /\ OpsBy("envelope") = {}

\* C10's case: the read succeeded but the bytes are not in the format the
\* Content-Type selects, pre-filters ran first, post-filters are installed.
C10_Witness ==
    /\ pc = "done"
    /\ request.body.readOk
    /\ request.body.contentType = "application/xml"
    /\ request.body.format = "json"
    /\ Len(dispatcher.preFilters.elems) = 2
    /\ Len(dispatcher.postFilters.elems) > 0
    /\ sink # <<>>


NotByFilter(o) == o.by # "filter"

\* What the core and the envelope did to the response, filters left out.
CoreOps == SelectSeq(sink, NotByFilter)

\* The response holds the pre-filters' operations, then the handler's own,
\* then what the envelope wrote in one write(), then the post-filters'
\* operations.
WrittenOnceInOrder ==
    \E a \in 0..Len(sink), h \in 0..Len(sink), b \in 0..Len(sink) :
        /\ a <= h
        /\ h <= b
        /\ \A k \in 1..a : sink[k].by = "filter" /\ sink[k].key = "pre"
        /\ \A k \in (a + 1)..h : sink[k].by = "handler"
        /\ SubSeq(sink, h + 1, b) \in EnvelopeWrites(envelope)
        /\ \A k \in (b + 1)..Len(sink) : sink[k].by = "filter" /\ sink[k].key = "post"

\* The post-filter events a finished request can end with: filters 1..j in
\* registration order, the j-th returning false, or all of them.
PostTails ==
    LET n == Len(dispatcher.postFilters.elems)
    IN  {[k \in 1..j |-> Event("post", k, k < j)] : j \in 1..n}
        \cup {[k \in 1..n |-> Event("post", k, TRUE)]}

\* A finished request that was routed, passed every pre-filter and was
\* bound.
Bound ==
    /\ pc = "done"
    /\ Len(trace) >= 1
    /\ trace[1].ok
    /\ ~PreRejected
    /\ \E k \in EventsOf("bind") : trace[k].ok

\* C9 as stated: the steps of a routed, passed and bound request are the
\* pre-filters, the binding, one handler call, one envelope write and the
\* post-filters, in that order.
C9_AsStated ==
    Bound =>
        /\ \E tail \in PostTails :
              trace = PassedPre
                      \o <<Event("bind", 0, TRUE), Event("invoke", 0, TRUE),
                           Event("write", 0, TRUE)>>
                      \o tail
        /\ WrittenOnceInOrder

\* The handler panicked: ServeHTTP was left at the handler's call.
HandlerPanicked ==
    pc = "panic" /\ Len(trace) >= 1 /\ trace[Len(trace)].ev = "invoke"

\* C9, amended: as stated when the handler returns an envelope; when it
\* returns nil there is no write step, no envelope is written, and the
\* post-filters follow the handler call; when it panics, the request ends
\* at the handler call with no envelope written and no post-filter run.
C9_OrderedOnce ==
    /\ Bound =>
          /\ \E tail \in PostTails :
                trace = PassedPre
                        \o <<Event("bind", 0, TRUE), Event("invoke", 0, TRUE)>>
                        \o (IF envelope.kind = "nil" THEN <<>>
                            ELSE <<Event("write", 0, TRUE)>>)
                        \o tail
          /\ WrittenOnceInOrder
    /\ HandlerPanicked =>
          /\ trace = PassedPre \o <<Event("bind", 0, TRUE), Event("invoke", 0, FALSE)>>
          /\ OpsBy("envelope") = {}
          /\ OpsBy("core") = {}
          /\ \A k \in 1..Len(sink) : sink[k].by = "handler" \/ sink[k].key = "pre"

\* C9's case: two pre-filters, a handler with a body that itself writes to
\* the response, an envelope written, two post-filters, and filters of both
\* phases writing to the response.
C9_Witness ==
    /\ Bound
    /\ OpsBy("handler") # {}
    /\ inputs.withBody
    /\ envelope.kind = "TextResponseWriter"
    /\ Cardinality(EventsOf("pre")) = 2
    /\ Cardinality(EventsOf("post")) = 2
    /\ \E k \in OpsBy("filter") : sink[k].key = "pre"
    /\ \E k \in OpsBy("filter") : sink[k].key = "post"

\* The post-filters that ran are filters 1..j in registration order, and a
\* false result is the last step of the request.
PostsInOrder ==
    /\ \A k \in EventsOf("post") :
          /\ trace[k].n = Cardinality({j \in EventsOf("post") : j <= k})
          /\ ~trace[k].ok => (k = Len(trace) /\ pc = "done")
    /\ EventsOf("post") # {} =>
          /\ OpsBy("core") = {}
          /\ WrittenOnceInOrder

\* C3 as stated: every post-filter runs after the envelope's write; they
\* run in registration order, a false result ends the request, and the
\* response holds what the envelope wrote once, before any post-filter's
\* operation, and nothing else of the core.
C3_AsStated ==
    /\ \A k \in EventsOf("post") : \E w \in EventsOf("write") : w < k
    /\ PostsInOrder

\* C3, amended: every post-filter runs after the handler's call has
\* returned, and after the envelope's write unless the handler returned
\* nil; the rest as stated.
C3_PostFiltersAfterWrite ==
    /\ \A k \in EventsOf("post") :
          /\ \E v \in EventsOf("invoke") : v < k /\ trace[v].ok
          /\ envelope.kind # "nil" => \E w \in EventsOf("write") : w < k
    /\ PostsInOrder

\* C3's case: the first of two post-filters returns false after writing to
\* the response the envelope was written to.
C3_Witness ==
    /\ pc = "done"
    /\ Len(dispatcher.postFilters.elems) = 2
    /\ Cardinality(EventsOf("post")) = 1
    /\ ~trace[Len(trace)].ok
    /\ envelope.kind = "TextResponseWriter"
    /\ OpsBy("envelope") # {}
    /\ sink[Len(sink)].by = "filter"


\* The methods C4 names as taking a body.
BodyMethods == {"POST", "PUT", "PATCH", "DELETE"}

\* A function registered with the wrong number of parameters for its
\* method: one under a body method, two under GET.
WrongArity(httpMethod, h) ==
    /\ h.kind = "func"
    /\ \/ httpMethod \in BodyMethods /\ h.numIn = 1
       \/ httpMethod = "GET" /\ h.numIn = 2

\* C4: registering a function with the wrong number of parameters for its
\* method panics and adds no entry, no entry of the registry has the wrong
\* number, and every entry takes a body exactly when its method is
\* bodyable.
C4_ArityMatchesMethod ==
    /\ (lastCall.fn = "addRoute" /\ WrongArity(lastCall.arg.method, lastCall.arg.handler)) =>
          /\ lastCall.result # ""
          /\ pc = "crashed"
          /\ EntryCount(routes, lastCall.arg.method) = lastCall.before
    /\ \A m \in DOMAIN routes : \A i \in 1..Len(routes[m]) :
          /\ ~WrongArity(m, routes[m][i].handlerValue)
          /\ HasRequestBody(routes[m][i]) = isHttpMethodBodyable(m)

\* C4's case: after a successful registration, a DELETE handler that is
\* right in everything but its single parameter is refused.
C4_Witness ==
    /\ pc = "crashed"
    /\ lastCall.fn = "addRoute"
    /\ lastCall.arg.method = "DELETE"
    /\ lastCall.arg.handler = Func("h", 1, TRUE, FALSE, 1, TRUE)
    /\ TotalEntries(routes) >= 1
    /\ EntryCount(routes, "DELETE") = 0

\* The grammar of C7.  A label: runs of [a-z0-9] joined by single hyphens.
IsLabel(L) ==
    /\ Len(L) >= 1
    /\ \A i \in 1..Len(L) : L[i] \in SubPathChar \cup {"-"}
    /\ L[1] # "-"
    /\ L[Len(L)] # "-"
    /\ \A i \in 1..(Len(L) - 1) : ~(L[i] = "-" /\ L[i + 1] = "-")

IsBraced(g) == Len(g) >= 2 /\ g[1] = "{" /\ g[Len(g)] = "}"

Inner(g) == SubSeq(g, 2, Len(g) - 1)

IsSegment(g) == IsLabel(g) \/ (IsBraced(g) /\ IsLabel(Inner(g)))

\* The segments of a path: what stands after each "/".
Segments(p) == Tail(Split(p))

GrammarPath(p) ==
    \/ p = <<"/">>
    \/ /\ Len(p) >= 1
       /\ p[1] = "/"
       /\ \A i \in 1..Len(Segments(p)) : IsSegment(Segments(p)[i])

\* C7: isValidPath returns true exactly on the paths of the grammar, and
\* registering a path outside the grammar panics without adding an entry.
C7_ValidPathGrammar ==
    /\ lastCall.fn = "isValidPath" => lastCall.result = GrammarPath(lastCall.arg)
    /\ (lastCall.fn = "addRoute" /\ ~GrammarPath(lastCall.arg.path)) =>
          /\ lastCall.result # ""
          /\ pc = "crashed"
          /\ EntryCount(routes, lastCall.arg.method) = lastCall.before
          /\ TotalEntries(routes) = 0

\* C7's case: a handler registered under a path with a doubled hyphen.
C7_Witness ==
    /\ lastCall.fn = "addRoute"
    /\ lastCall.arg.path = <<"/","a","/","a","-","-","b">>
    /\ lastCall.arg.handler = GetHandler
    /\ lastCall.result = "assertValidPath: path didn't match"

\* The zero-based positions of the brace-wrapped segments of a template.
BracePositions(p) == {i \in 0..(Len(Segments(p)) - 1) : IsBraced(Segments(p)[i + 1])}

\* The variables expected of a template: one per brace-wrapped segment, in
\* segment order, with the segment's position and its name without braces;
\* nil when there is none.
IsVariablesOf(v, p) ==
    LET k == Cardinality(BracePositions(p))
    IN  /\ v.isNil = (k = 0)
        /\ Len(v.elems) = k
        /\ \A j \in 1..k :
              /\ v.elems[j].pathIndex \in BracePositions(p)
              /\ Cardinality({i \in BracePositions(p) : i <= v.elems[j].pathIndex}) = j
              /\ v.elems[j].variableName = Inner(Segments(p)[v.elems[j].pathIndex + 1])

Tokens(re) == {i \in 1..Len(re) : re[i] = regexPart}

\* C6: on a valid template, extractPathVariableNames yields the variables
\* expected of it, toRegexPath yields as many tokens as it has brace-wrapped
\* segments, and a registered entry has as many variables as its matcher
\* has tokens.
C6_VariablesOfTemplate ==
    /\ (lastCall.fn = "extractPathVariableNames" /\ isValidPath(lastCall.arg)) =>
          IsVariablesOf(lastCall.result, lastCall.arg)
    /\ (lastCall.fn = "toRegexPath" /\ isValidPath(lastCall.arg)) =>
          Cardinality(Tokens(lastCall.result)) = Cardinality(BracePositions(lastCall.arg))
    /\ \A m \in DOMAIN routes : \A i \in 1..Len(routes[m]) :
          /\ IsVariablesOf(routes[m][i].pathVariableNames, routes[m][i].path)
          /\ Cardinality(Tokens(routes[m][i].regexPath))
                = Len(routes[m][i].pathVariableNames.elems)

\* C6's case: the template of the tests gives mo-ck1, m-o-ck2 and mock3 at
\* 1, 3 and 5.
C6_Witness ==
    /\ lastCall.fn = "extractPathVariableNames"
    /\ lastCall.arg = TestTemplate
    /\ lastCall.result =
          Slice(<<[pathIndex |-> 1, variableName |-> <<"m","o","-","c","k","1">>],
                  [pathIndex |-> 3, variableName |-> <<"m","-","o","-","c","k","2">>],
                  [pathIndex |-> 5, variableName |-> <<"m","o","c","k","3">>]>>)


\* The handler's inputs have been built for this request.
InputsBuilt == InRequest /\ \E k \in EventsOf("bind") : trace[k].ok

\* The names of the variables of a template.
VariableNames(p) == {Inner(Segments(p)[i + 1]) : i \in BracePositions(p)}

\* The positions at which a template has a variable of this name.
PositionsOf(p, name) == {i \in BracePositions(p) : Inner(Segments(p)[i + 1]) = name}

\* C5 as stated: the handler's PathVariables binds the name of every
\* variable of the template to the request's segment at the variable's
\* position.
C5_AsStated ==
    InputsBuilt =>
        \A i \in BracePositions(handler.path) :
            LET name == Inner(Segments(handler.path)[i + 1])
            IN  /\ name \in DOMAIN inputs.pathVariables
                /\ i + 1 <= Len(Segments(request.path))
                /\ inputs.pathVariables[name] = Segments(request.path)[i + 1]

\* C5, amended: PathVariables has exactly the names of the template's
\* variables, and binds each name to the request's segment at the position
\* of the last variable of that name (the only one, when names differ).
C5_LastOccurrenceBinds ==
    InputsBuilt =>
        /\ DOMAIN inputs.pathVariables = VariableNames(handler.path)
        /\ \A name \in VariableNames(handler.path) :
              LET i == SetMax(PositionsOf(handler.path, name))
              IN  /\ i + 1 <= Len(Segments(request.path))
                  /\ inputs.pathVariables[name] = Segments(request.path)[i + 1]

\* C5's case: the template and the path of the tests give mo-ck1 = 111111,
\* m-o-ck2 = 222222 and mock3 = 333333.
C5_Witness ==
    /\ pc = "invoke"
    /\ handler.path = TestTemplate
    /\ request.path = TestPath
    /\ inputs.pathVariables[<<"m","o","-","c","k","1">>] = <<"1","1","1","1","1","1">>
    /\ inputs.pathVariables[<<"m","-","o","-","c","k","2">>] = <<"2","2","2","2","2","2">>
    /\ inputs.pathVariables[<<"m","o","c","k","3">>] = <<"3","3","3","3","3","3">>

IsToken(g) == Len(g) >= 1 /\ \A i \in 1..Len(g) : g[i] \in RegexPartChar

\* The path is the template as a whole: it starts with "/", has the
\* template's number of segments, equals it on every literal segment and
\* has a token on every variable segment.
FullMatch(template, path) ==
    /\ Len(path) >= 1
    /\ path[1] = "/"
    /\ Len(Segments(path)) = Len(Segments(template))
    /\ \A i \in 1..Len(Segments(template)) :
          IF IsBraced(Segments(template)[i])
          THEN IsToken(Segments(path)[i])
          ELSE Segments(path)[i] = Segments(template)[i]

\* C8 as stated: a route is chosen for a request only when the path is its
\* template as a whole, and a request whose path is the whole of no
\* template of its method gets the 404.
C8_AsStated ==
    InRequest =>
        /\ trace[1].ok => FullMatch(handler.path, request.path)
        /\ (\A i \in 1..EntryCount(routes, request.method) :
               ~FullMatch(routes[request.method][i].path, request.path))
           => sink = <<Op("core", "WriteHeader", "", "", NotFound)>>


ByEnvelope(o) == o.by = "envelope"

\* What the envelope's write() did to the response, in order.
EnvelopeOps == SelectSeq(sink, ByEnvelope)

\* The envelope of this request has been written.
Written == InRequest /\ EventsOf("write") # {}

\* The header the envelope's Content-Type goes to, and its value.
ContentTypeOf(r) ==
    IF r.kind = "TextResponseWriter" THEN "text/plain" ELSE r.contentType

\* The custom headers a caller gave to the envelope.
CustomHeadersOf(r) ==
    IF r.kind \in {"ResponseWriter", "TextResponseWriter"} THEN r.customHeaders ELSE {}

\* The position at which a sequence of operations commits the status: its
\* first WriteHeader or Write; past the end when it has none.
CommitAt(ops) ==
    LET c == {k \in 1..Len(ops) : ops[k].op \in {"WriteHeader", "Write"}}
    IN  IF c = {} THEN Len(ops) + 1 ELSE SetMin(c)

\* The value the client receives for a header on a sink that sends the
\* headers set before the status is committed: the last value set before
\* that position, "" when there is none.
SentHeader(ops, key) ==
    LET set == {k \in 1..(CommitAt(ops) - 1) : ops[k].op = "Header.Set" /\ ops[k].key = key}
    IN  IF set = {} THEN "" ELSE ops[SetMax(set)].value

\* C11 as stated: when a JSON, XML, text or file envelope has been written,
\* its Content-Type and its custom headers were set before its WriteHeader,
\* and the client receives them.
C11_AsStated ==
    (Written /\ envelope.kind \in {"ResponseWriter", "TextResponseWriter", "FileResponseWriter"}) =>
        LET keys == {"Content-Type"} \cup {h.key : h \in CustomHeadersOf(envelope)}
        IN  /\ \A k, j \in 1..Len(EnvelopeOps) :
                  (/\ EnvelopeOps[k].op = "Header.Set"
                   /\ EnvelopeOps[k].key \in keys
                   /\ EnvelopeOps[j].op = "WriteHeader") => k < j
            /\ SentHeader(EnvelopeOps, "Content-Type") = ContentTypeOf(envelope)
            /\ \A h \in CustomHeadersOf(envelope) :
                  SentHeader(EnvelopeOps, h.key) = h.value


\* The i-th entry registered under the request's method accepts its path.
Accepts(i) == MatchString(routes[request.method][i].regexPath, request.path)

\* The last registration was of a valid template with a handler fit for its
\* method.
ValidRegistration ==
    /\ lastCall.fn = "addRoute"
    /\ GrammarPath(lastCall.arg.path)
    /\ lastCall.arg.handler \in
          {h \in LookupHandlers : h.numIn = (IF lastCall.arg.method = "GET" THEN 1 ELSE 2)}

\* C12: the entry a routed request is given to is the first, in
\* registration order, of the entries under the request's method that
\* accept the path: no earlier entry of the method accepts it.  Registering
\* a valid route succeeds whatever is registered already.
C12_FirstMatchWins ==
    /\ (InRequest /\ trace[1].ok) =>
          \E i \in 1..EntryCount(routes, request.method) :
              /\ handler = routes[request.method][i]
              /\ Accepts(i)
              /\ \A j \in 1..(i - 1) : ~Accepts(j)
    /\ ValidRegistration =>
          /\ lastCall.result = ""
          /\ EntryCount(routes, lastCall.arg.method) = lastCall.before + 1

\* C12's case: two routes of the request's method with different handlers
\* both accept the path, a route of another method accepts it too, and the
\* handler has been invoked.
C12_Witness ==
    /\ pc = "done"
    /\ EventsOf("invoke") # {}
    /\ request.method = "GET"
    /\ EntryCount(routes, "GET") = 2
    /\ Accepts(1)
    /\ Accepts(2)
    /\ routes["GET"][1].handlerValue.name = "second"
    /\ routes["GET"][2].handlerValue.name = "first"
    /\ routes["GET"][1].path # routes["GET"][2].path
    /\ handler.handlerValue.name = "second"


\* The positions in the envelope's operations of each kind of step.
StatusSteps == {k \in 1..Len(EnvelopeOps) : EnvelopeOps[k].op = "WriteHeader"}

ContentTypeSteps ==
    {k \in 1..Len(EnvelopeOps) :
        EnvelopeOps[k].op = "Header.Set" /\ EnvelopeOps[k].key = "Content-Type"}

\* Headers whose values the caller supplied.
SuppliedHeaderSteps ==
    {k \in 1..Len(EnvelopeOps) :
        EnvelopeOps[k].op = "Header.Set" /\ EnvelopeOps[k].key # "Content-Type"}

BodySteps == {k \in 1..Len(EnvelopeOps) : EnvelopeOps[k].op = "Write"}

\* Every step of A comes before every step of B.
Before(A, B) == \A a \in A, b \in B : a < b

\* C13 as stated: whatever the variant, the envelope's write begins with
\* the status code, and the steps it performs come in the order status,
\* Content-Type, caller-supplied headers, body.
C13_AsStated ==
    Written =>
        /\ StatusSteps = {1}
        /\ Before(StatusSteps, ContentTypeSteps)
        /\ Before(ContentTypeSteps, SuppliedHeaderSteps)
        /\ Before(SuppliedHeaderSteps, BodySteps)
        /\ Before(ContentTypeSteps, BodySteps)

\* The operations at positions lo..hi set exactly these headers, each once.
SetsHeaders(lo, hi, headers) ==
    /\ hi - lo + 1 = Cardinality(headers)
    /\ \A k \in lo..hi : EnvelopeOps[k].op = "Header.Set"
    /\ {[key |-> EnvelopeOps[k].key, value |-> EnvelopeOps[k].value] : k \in lo..hi} = headers

\* C13, amended: the JSON, XML, error and text envelopes set the status,
\* then Content-Type, then the custom headers in any order, then write the
\* body (a JSON, XML or error envelope writes none when marshalling fails);
\* the file envelope sets Content-Length (when positive) and
\* Content-Disposition, then the status, then Content-Type, then copies the
\* stream; the no-content envelope sets the status 204 and nothing else.
C13_WriteOrder ==
    Written =>
        LET ops == EnvelopeOps
            n   == Cardinality(CustomHeadersOf(envelope))
        IN  CASE envelope.kind \in {"ResponseWriter", "TextResponseWriter"} ->
                   /\ Len(ops) >= 2 + n
                   /\ ops[1].op = "WriteHeader" /\ ops[1].status = envelope.statusCode
                   /\ ops[2].op = "Header.Set" /\ ops[2].key = "Content-Type"
                   /\ ops[2].value = ContentTypeOf(envelope)
                   /\ SetsHeaders(3, 2 + n, CustomHeadersOf(envelope))
                   /\ IF envelope.kind = "ResponseWriter" /\ ~envelope.marshalOk
                      THEN Len(ops) = 2 + n
                      ELSE Len(ops) = 3 + n /\ ops[3 + n].op = "Write"
              [] envelope.kind = "FileResponseWriter" ->
                   LET c == IF envelope.contentLength > 0 THEN 1 ELSE 0
                   IN  /\ Len(ops) = c + 4
                       /\ c = 1 => (ops[1].op = "Header.Set" /\ ops[1].key = "Content-Length")
                       /\ ops[c + 1].op = "Header.Set"
                       /\ ops[c + 1].key = "Content-Disposition"
                       /\ ops[c + 1].value = envelope.contentDisposition
                       /\ ops[c + 2].op = "WriteHeader"
                       /\ ops[c + 2].status = envelope.statusCode
                       /\ ops[c + 3].op = "Header.Set" /\ ops[c + 3].key = "Content-Type"
                       /\ ops[c + 3].value = envelope.contentType
                       /\ ops[c + 4].op = "Write"
              [] envelope.kind = "NoContentResponseWriter" ->
                   /\ Len(ops) = 1
                   /\ ops[1].op = "WriteHeader" /\ ops[1].status = StatusNoContent
              [] OTHER -> FALSE

\* C13's case: a file envelope with a Content-Length has been written after
\* a pre-filter wrote to the response.
C13_Witness ==
    /\ pc = "done"
    /\ Written
    /\ envelope.kind = "FileResponseWriter"
    /\ envelope.contentLength > 0
    /\ Len(sink) > Len(EnvelopeOps)
    /\ sink[1].by = "filter"


\* The parts strings.Split gives for the request's path, indexed from 0 as
\* in the code: index k exists when 0 <= k < their number.
PartExists(k) == k >= 0 /\ k < Len(Split(request.path))

\* C14: for a request given to a route, every variable of the route has
\* its part in the split path (index pathIndex + 1 exists), and binding
\* never panics: ServeHTTP is never left at the binding step by a panic.
C14_BindingInRange ==
    /\ ~(pc = "panic" /\ trace[Len(trace)].ev = "bind")
    /\ (InRequest /\ trace[1].ok) =>
          \A k \in 1..Len(handler.pathVariableNames.elems) :
              PartExists(handler.pathVariableNames.elems[k].pathIndex + 1)

\* C14's case: a template whose last segment is its second variable has
\* accepted a path that is not the template as a whole, and the variables
\* have been bound.
C14_Witness ==
    /\ InputsBuilt
    /\ Len(handler.pathVariableNames.elems) = 2
    /\ handler.pathVariableNames.elems[2].pathIndex = Len(Segments(handler.path)) - 1
    /\ ~FullMatch(handler.path, request.path)
    /\ DOMAIN inputs.pathVariables # {}

=============================================================================
